---- MODULE Spec2Model ----
(***************************************************************************)
(* Model of two instrument drivers of pymeasure:                           *)
(*   Keithley705   (instruments/keithley/keithley705.py), a 20-channel     *)
(*                 relay scanner, and                                      *)
(*   Kusg245_250A  (instruments/kuhneelectronic/kusg245_250a.py), a        *)
(*                 2.45 GHz microwave generator.                           *)
(* A session drives one instrument over one transport.  The state is the   *)
(* sequence of commands written to the transport, the position of the      *)
(* method in progress, and the instrument's own state as far as the        *)
(* written commands determine it (closed relays; bias and RF switches).    *)
(* A command is the sequence of its characters, built by the same          *)
(* formatting the drivers use (%d, %03d, %04d, %07d).                      *)
(* Python's bool is a subtype of int (False == 0, True == 1), so boolean   *)
(* arguments are the integers 0 and 1 here, and other integers are the     *)
(* arguments outside the declared set [False, True].                       *)
(***************************************************************************)
EXTENDS Integers, Sequences, FiniteSets, TLC

VARIABLES
    dev,          \* "none" before construction, "k705", "kusg", or "failed"
    power_limit,  \* Kusg245_250A._power_limit and power_setpoint_values[1]
    pc,           \* position inside turn_on() / shutdown(); "idle" between calls
    written,      \* every command written to the transport, in order
    call,         \* the call in progress or last completed
    err,          \* the last completed call raised an exception
    calls,        \* number of method calls and property assignments started
    closed,       \* scanner: the set of closed channels
    bias,         \* generator: transistor biasing is on
    rf            \* generator: RF output is on

vars == <<dev, power_limit, pc, written, call, err, calls, closed, bias, rf>>

(***************************************************************************)
(* Bounds of the model.                                                    *)
(***************************************************************************)
\* calls made on one instrument after its construction
MaxCalls == 2
\* how far outside (and around the ends of) a declared range the inputs go
Margin == 1
\* how far outside its declared range the input of a single setter call goes
Wide == 5
\* width of the windows of frequency_fine inputs at the ends and in the middle
FineWindow == 25

(***************************************************************************)
(* Formatting: '%d' and '%0<w>d' of Python's printf-style formatting and   *)
(* the format spec '03d' of f-strings.                                     *)
(***************************************************************************)
Digit(d) == <<"0", "1", "2", "3", "4", "5", "6", "7", "8", "9">>[d + 1]

RECURSIVE Dec(_)
Dec(n) == IF n < 10 THEN <<Digit(n)>> ELSE Dec(n \div 10) \o <<Digit(n % 10)>>

RECURSIVE ZeroPad(_, _)
ZeroPad(s, w) == IF Len(s) >= w THEN s ELSE ZeroPad(<<"0">> \o s, w)

\* '%0<w>d' % n ; w = 0 is plain '%d'
FmtD(n, w) ==
    IF n < 0 THEN <<"-">> \o ZeroPad(Dec(-n), w - 1) ELSE ZeroPad(Dec(n), w)

(***************************************************************************)
(* Python's round(): to the nearest, ties to the even neighbour.           *)
(* RoundHalfEven(n, d) is round(n / d) for d > 0.                          *)
(***************************************************************************)
RoundHalfEven(n, d) ==
    LET q == n \div d
        r == n % d
    IN  IF 2 * r < d THEN q
        ELSE IF 2 * r > d THEN q + 1
        ELSE IF q % 2 = 0 THEN q ELSE q + 1

\* round(v, -1) of an int: the nearest multiple of ten, ties to the even ten
RoundToTens(v) == 10 * RoundHalfEven(v, 10)

(***************************************************************************)
(* The validators of pymeasure.instruments.validators.                     *)
(***************************************************************************)
\* strict_discrete_set(value, values) returns value when this holds and
\* raises ValueError otherwise
strict_discrete_set(value, values) == value \in values

\* truncated_range(value, [lo, hi])
truncated_range(value, lo, hi) ==
    IF lo <= value /\ value <= hi THEN value
    ELSE IF value > hi THEN hi
    ELSE lo

Max(S) == CHOOSE x \in S : \A y \in S : y <= x
Min(S) == CHOOSE x \in S : \A y \in S : x <= y

\* truncated_discrete_set(value, values): the smallest member that is not
\* below value, the largest member when there is none
truncated_discrete_set(value, values) ==
    IF \E m \in values : value <= m
    THEN Min({m \in values : value <= m})
    ELSE Max(values)

(***************************************************************************)
(* The instruments as the written commands drive them.                     *)
(***************************************************************************)
NumChannels == 20

\* Keithley705.channels = tuple(range(1, 21))
channels == [i \in 1..NumChannels |-> i]

DigitVal(c) ==
    CASE c = "0" -> 0 [] c = "1" -> 1 [] c = "2" -> 2 [] c = "3" -> 3 [] c = "4" -> 4
      [] c = "5" -> 5 [] c = "6" -> 6 [] c = "7" -> 7 [] c = "8" -> 8 [] c = "9" -> 9

RECURSIVE ParseDec(_)
ParseDec(s) ==
    IF Len(s) = 0 THEN 0
    ELSE 10 * ParseDec(SubSeq(s, 1, Len(s) - 1)) + DigitVal(s[Len(s)])

\* the number between a command's letter and its terminating X
CmdChannel(cmd) == ParseDec(SubSeq(cmd, 2, Len(cmd) - 1))

\* RX opens all channels, N<k>X opens k, C<k>X closes k
ScannerStep(cl, cmd) ==
    IF cmd = <<"R", "X">> THEN {}
    ELSE IF Head(cmd) = "N" THEN cl \ {CmdChannel(cmd)}
    ELSE IF Head(cmd) = "C" THEN cl \cup {CmdChannel(cmd)}
    ELSE cl

RECURSIVE ScannerRun(_, _)
ScannerRun(cl, cmds) ==
    IF cmds = <<>> THEN cl
    ELSE ScannerRun(ScannerStep(cl, Head(cmds)), Tail(cmds))

\* X / x switch the biasing on / off, O / o the RF output
BiasAfter(b, cmd) ==
    IF cmd = <<"X">> THEN TRUE ELSE IF cmd = <<"x">> THEN FALSE ELSE b

RfAfter(r, cmd) ==
    IF cmd = <<"O">> THEN TRUE ELSE IF cmd = <<"o">> THEN FALSE ELSE r

(***************************************************************************)
(* Bookkeeping shared by the operations.                                   *)
(***************************************************************************)
\* the record of a call: its name, its integer or string argument, the
\* length of the transport log when it started, whether it has slept
Call(op, arg, key) ==
    [op |-> op, arg |-> arg, key |-> key, start |-> Len(written), slept |-> FALSE]

\* the commands the call in progress (or the last call) has written
Segment == SubSeq(written, call.start + 1, Len(written))

CanCall(d) == dev = d /\ pc = "idle" /\ calls < MaxCalls

Init ==
    /\ dev = "none"
    /\ power_limit = 0
    /\ pc = "idle"
    /\ written = <<>>
    /\ call = [op |-> "none", arg |-> 0, key |-> "", start |-> 0, slept |-> FALSE]
    /\ err = FALSE
    /\ calls = 0
    /\ closed = {}
    /\ bias = FALSE
    /\ rf = FALSE

(***************************************************************************)
(* Keithley705                                                             *)
(***************************************************************************)
\* a scanner call that writes cmds (none when it raised)
ScannerWrites(op, arg, key, cmds, raised) ==
    /\ written' = written \o cmds
    /\ closed' = ScannerRun(closed, cmds)
    /\ call' = Call(op, arg, key)
    /\ err' = raised
    /\ calls' = calls + 1
    /\ UNCHANGED <<dev, power_limit, pc, bias, rf>>

reset_cmds == << <<"R", "X">> >>

open_channel_cmd(channel) == <<"N">> \o FmtD(channel, 0) \o <<"X">>

close_channel_cmd(channel) == <<"C">> \o FmtD(channel, 0) \o <<"X">>

\* mutant: the loop stops one channel early
RECURSIVE exclusive_open_cmds_short(_, _)
exclusive_open_cmds_short(i, channel) ==
    IF i >= Len(channels) THEN <<>>
    ELSE (IF channels[i] # channel
          THEN <<open_channel_cmd(channels[i])>> ELSE <<>>)
         \o exclusive_open_cmds_short(i + 1, channel)

\* the loop of exclusive_close over self.channels[i..]
RECURSIVE exclusive_open_cmds(_, _)
exclusive_open_cmds(i, channel) ==
    IF i > Len(channels) THEN <<>>
    ELSE (IF channels[i] # channel
          THEN <<open_channel_cmd(channels[i])>> ELSE <<>>)
         \o exclusive_open_cmds(i + 1, channel)

\* mutant: the selected channel is closed before the others are opened
exclusive_close_cmds_close_first(channel) ==
    <<close_channel_cmd(channel)>> \o exclusive_open_cmds(1, channel)

exclusive_close_cmds(channel) ==
    exclusive_open_cmds(1, channel) \o <<close_channel_cmd(channel)>>

\* Keithley705.__init__: the constructor ends with self.reset()
Construct705 ==
    /\ dev = "none"
    /\ dev' = "k705"
    /\ written' = written \o reset_cmds
    /\ closed' = ScannerRun(closed, reset_cmds)
    /\ call' = Call("__init__", 0, "")
    /\ UNCHANGED <<power_limit, pc, err, calls, bias, rf>>

Reset ==
    /\ CanCall("k705")
    /\ ScannerWrites("reset", 0, "", reset_cmds, FALSE)

OpenChannel(channel) ==
    /\ CanCall("k705")
    /\ ScannerWrites("open_channel", channel, "", <<open_channel_cmd(channel)>>, FALSE)

CloseChannel(channel) ==
    /\ CanCall("k705")
    /\ ScannerWrites("close_channel", channel, "", <<close_channel_cmd(channel)>>, FALSE)

ExclusiveClose(channel) ==
    /\ CanCall("k705")
    /\ ScannerWrites("exclusive_close", channel, "", exclusive_close_cmds(channel), FALSE)

\* number_of_poles: "A%dX", strict_discrete_set, values (0, 1, 2, 4)
number_of_poles_values == {0, 1, 2, 4}

number_of_poles_cmds(value) ==
    IF strict_discrete_set(value, number_of_poles_values)
    THEN << <<"A">> \o FmtD(value, 0) \o <<"X">> >>
    ELSE <<>>

SetNumberOfPoles(value) ==
    /\ CanCall("k705")
    /\ ScannerWrites("number_of_poles", value, "", number_of_poles_cmds(value),
                     ~strict_discrete_set(value, number_of_poles_values))

\* display_mode: "D%dX", strict_discrete_set, map_values
display_mode_values ==
    [channel |-> 0, interval |-> 1, time |-> 2, date |-> 3, message |-> 4]

display_mode_cmds(key) ==
    IF strict_discrete_set(key, DOMAIN display_mode_values)
    THEN << <<"D">> \o FmtD(display_mode_values[key], 0) \o <<"X">> >>
    ELSE <<>>

SetDisplayMode(key) ==
    /\ CanCall("k705")
    /\ ScannerWrites("display_mode", 0, key, display_mode_cmds(key),
                     ~strict_discrete_set(key, DOMAIN display_mode_values))

\* date_format: "E%dX", strict_discrete_set, map_values
date_format_values == [American |-> 0, International |-> 1]

date_format_cmds(key) ==
    IF strict_discrete_set(key, DOMAIN date_format_values)
    THEN << <<"E">> \o FmtD(date_format_values[key], 0) \o <<"X">> >>
    ELSE <<>>

SetDateFormat(key) ==
    /\ CanCall("k705")
    /\ ScannerWrites("date_format", 0, key, date_format_cmds(key),
                     ~strict_discrete_set(key, DOMAIN date_format_values))

ChannelInputs == 1..NumChannels
\* open_channel is called on the channels at both ends of the range
OpenInputs == (1..(1 + Margin)) \cup ((NumChannels - Margin)..NumChannels)
PolesInputs == (0 - Margin)..(4 + Margin)
DisplayModeInputs == (DOMAIN display_mode_values) \cup {"American", "off"}
DateFormatInputs == (DOMAIN date_format_values) \cup {"date", "ISO"}

ScannerCall ==
    \/ Reset
    \/ \E k \in OpenInputs : OpenChannel(k)
    \/ \E k \in ChannelInputs : CloseChannel(k)
    \/ \E k \in ChannelInputs : ExclusiveClose(k)
    \/ \E v \in PolesInputs : SetNumberOfPoles(v)
    \/ \E s \in DisplayModeInputs : SetDisplayMode(s)
    \/ \E s \in DateFormatInputs : SetDateFormat(s)

(***************************************************************************)
(* Kusg245_250A                                                            *)
(***************************************************************************)
RECURSIVE BiasRun(_, _)
BiasRun(b, cmds) ==
    IF cmds = <<>> THEN b ELSE BiasRun(BiasAfter(b, Head(cmds)), Tail(cmds))

RECURSIVE RfRun(_, _)
RfRun(r, cmds) ==
    IF cmds = <<>> THEN r ELSE RfRun(RfAfter(r, Head(cmds)), Tail(cmds))

\* self.write(cmd) for each of cmds
GenWrite(cmds) ==
    /\ written' = written \o cmds
    /\ bias' = BiasRun(bias, cmds)
    /\ rf' = RfRun(rf, cmds)

\* a generator call that is one step: it writes cmds (none when it raised)
GenCall(op, arg, cmds, raised) ==
    /\ CanCall("kusg")
    /\ GenWrite(cmds)
    /\ call' = Call(op, arg, "")
    /\ err' = raised
    /\ calls' = calls + 1
    /\ UNCHANGED <<dev, power_limit, pc, closed>>

\* Kusg245_250A.__init__(adapter, power_limit = limit)
ConstructKusg(limit) ==
    /\ dev = "none"
    /\ IF 0 < limit /\ limit <= 250
       THEN dev' = "kusg" /\ power_limit' = limit /\ err' = FALSE
       ELSE dev' = "failed" /\ power_limit' = power_limit /\ err' = TRUE
    /\ call' = Call("__init__", limit, "")
    /\ UNCHANGED <<pc, written, calls, closed, bias, rf>>

\* values = [False, True]
bool_values == {0, 1}

\* the four boolean controls: "%s" with set_process {True: <upper>, False: <lower>}[v]
external_enabled_cmds(v) ==
    IF strict_discrete_set(v, bool_values)
    THEN << <<IF v = 1 THEN "R" ELSE "r">> >> ELSE <<>>

\* mutant: the token is looked up without the validator
bias_enabled_cmds_unvalidated(v) == << <<IF v = 1 THEN "X" ELSE "x">> >>

bias_enabled_cmds(v) ==
    IF strict_discrete_set(v, bool_values)
    THEN << <<IF v = 1 THEN "X" ELSE "x">> >> ELSE <<>>

rf_enabled_cmds(v) ==
    IF strict_discrete_set(v, bool_values)
    THEN << <<IF v = 1 THEN "O" ELSE "o">> >> ELSE <<>>

pulse_mode_enabled_cmds(v) ==
    IF strict_discrete_set(v, bool_values)
    THEN << <<IF v = 1 THEN "P" ELSE "p">> >> ELSE <<>>

\* freq_steps_fine_enabled: "fm%d", values {False: 0, True: 1}, map_values
freq_steps_fine_values == [v \in bool_values |-> v]

freq_steps_fine_enabled_cmds(v) ==
    IF strict_discrete_set(v, DOMAIN freq_steps_fine_values)
    THEN << <<"f", "m">> \o FmtD(freq_steps_fine_values[v], 0) >> ELSE <<>>

SetExternalEnabled(v) ==
    GenCall("external_enabled", v, external_enabled_cmds(v),
            ~strict_discrete_set(v, bool_values))

SetBiasEnabled(v) ==
    GenCall("bias_enabled", v, bias_enabled_cmds(v),
            ~strict_discrete_set(v, bool_values))

SetRfEnabled(v) ==
    GenCall("rf_enabled", v, rf_enabled_cmds(v),
            ~strict_discrete_set(v, bool_values))

SetPulseModeEnabled(v) ==
    GenCall("pulse_mode_enabled", v, pulse_mode_enabled_cmds(v),
            ~strict_discrete_set(v, bool_values))

SetFreqStepsFineEnabled(v) ==
    GenCall("freq_steps_fine_enabled", v, freq_steps_fine_enabled_cmds(v),
            ~strict_discrete_set(v, DOMAIN freq_steps_fine_values))

\* power_setpoint: "A%03d", truncated_range; dynamic, so the range is
\* self.power_setpoint_values = [0, power_limit] set by the constructor
power_setpoint_cmd(value, limit) ==
    <<"A">> \o FmtD(truncated_range(value, 0, limit), 3)

SetPowerSetpoint(value) ==
    GenCall("power_setpoint", value, <<power_setpoint_cmd(value, power_limit)>>, FALSE)

\* mutant: tune() truncates to the class-wide range instead of the limit
tune_cmd_static_range(power, limit) ==
    <<"b">> \o FmtD(truncated_range(power, 0, 250), 3)

\* tune(power)
tune_cmd(power, limit) ==
    <<"b">> \o FmtD(truncated_range(power, 0, limit), 3)

Tune(power) ==
    GenCall("tune", power, <<tune_cmd(power, power_limit)>>, FALSE)

ClearVSWRError == GenCall("clear_VSWR_error", 0, << <<"z">> >>, FALSE)

StoreSettings == GenCall("store_settings", 0, << <<"S", "E">> >>, FALSE)

(***************************************************************************)
(* Kusg245_250A: the numeric controls.                                     *)
(***************************************************************************)
\* frequency_coarse: "f%04d", truncated_range [2400, 2500]
frequency_coarse_cmd(value) ==
    <<"f">> \o FmtD(truncated_range(value, 2400, 2500), 4)

\* mutant: round(v, 1), which leaves an int as it is
frequency_fine_set_process_ndigits(v) == v

\* frequency_fine: set_process = lambda v: round(v, -1)
frequency_fine_set_process(v) == RoundToTens(v)

\* frequency_fine: "f%07d", truncated_range [2400000, 2500000]
frequency_fine_cmd(value) ==
    <<"f">> \o FmtD(frequency_fine_set_process(
                        truncated_range(value, 2400000, 2500000)), 7)

\* mutant: round(v, -1), a resolution of 10 ms
pulse_width_set_process_tens(v) == RoundToTens(v)

\* pulse_width: set_process = lambda v: round(2 * v, -1) / 2
\* (the quotient is a float with an integral value, which %d prints as such)
pulse_width_set_process(v) == RoundToTens(2 * v) \div 2

\* pulse_width: "C%04d", truncated_range [10, 1000]
pulse_width_cmd(value) ==
    <<"C">> \o FmtD(pulse_width_set_process(truncated_range(value, 10, 1000)), 4)

\* off_time: set_process = lambda v: round(2 * v, -1) / 2
off_time_set_process(v) == RoundToTens(2 * v) \div 2

\* off_time: "c%04d", truncated_range [10, 1000]
off_time_cmd(value) ==
    <<"c">> \o FmtD(off_time_set_process(truncated_range(value, 10, 1000)), 4)

\* Phases are in tenths of a degree, so that the upper end of the range,
\* 358.6 degrees, is the integer 3586.
\* mutant: int() instead of round()
phase_shift_set_process_floor(tenths) == (tenths * 256) \div 3600

\* phase_shift: set_process = lambda v: round(v / 360 * 256)
phase_shift_set_process(tenths) == RoundHalfEven(tenths * 256, 3600)

\* phase_shift: get_process = lambda v: v / 256 * 360, as a fraction of tenths
phase_shift_get_process(code) == [num |-> code * 3600, den |-> 256]

\* phase_shift: "H%03d", truncated_range [0, 358.6]
phase_shift_cmd(tenths) ==
    <<"H">> \o FmtD(phase_shift_set_process(truncated_range(tenths, 0, 3586)), 3)

\* mutant: two codes exchanged
reflection_limit_values_swapped ==
    (0 :> 0) @@ (100 :> 1) @@ (150 :> 3) @@ (180 :> 2) @@ (200 :> 4) @@ (230 :> 5)

\* reflection_limit: values = {0: 0, 100: 1, 150: 2, 180: 3, 200: 4, 230: 5}
reflection_limit_values ==
    (0 :> 0) @@ (100 :> 1) @@ (150 :> 2) @@ (180 :> 3) @@ (200 :> 4) @@ (230 :> 5)

\* reflection_limit: "B%d", truncated_discrete_set, map_values
reflection_limit_cmd(value) ==
    <<"B">> \o FmtD(reflection_limit_values[
                        truncated_discrete_set(value, DOMAIN reflection_limit_values)], 0)

SetFrequencyCoarse(value) ==
    GenCall("frequency_coarse", value, <<frequency_coarse_cmd(value)>>, FALSE)

SetFrequencyFine(value) ==
    GenCall("frequency_fine", value, <<frequency_fine_cmd(value)>>, FALSE)

SetPulseWidth(value) ==
    GenCall("pulse_width", value, <<pulse_width_cmd(value)>>, FALSE)

SetOffTime(value) ==
    GenCall("off_time", value, <<off_time_cmd(value)>>, FALSE)

SetPhaseShift(tenths) ==
    GenCall("phase_shift", tenths, <<phase_shift_cmd(tenths)>>, FALSE)

SetReflectionLimit(value) ==
    GenCall("reflection_limit", value, <<reflection_limit_cmd(value)>>, FALSE)

\* mutant: shutdown() removes the biasing first
shutdown_cmds_bias_first == bias_enabled_cmds(0) \o rf_enabled_cmds(0)

\* mutant: turn_on() enables RF first
turn_on_cmds_rf_first == rf_enabled_cmds(1) \o bias_enabled_cmds(1)

\* the property assignments of shutdown() and of turn_on(), in program order
shutdown_cmds == rf_enabled_cmds(0) \o bias_enabled_cmds(0)

turn_on_cmds == bias_enabled_cmds(1) \o rf_enabled_cmds(1)

\* a step of a call in progress that writes cmd and goes to position next
GenStep(cmd, next) ==
    /\ GenWrite(<<cmd>>)
    /\ pc' = next
    /\ UNCHANGED <<dev, power_limit, call, err, calls, closed>>

\* a first step: the call starts, writes cmd and goes to position next
GenStart(op, cmd, next) ==
    /\ CanCall("kusg")
    /\ GenWrite(<<cmd>>)
    /\ pc' = next
    /\ call' = Call(op, 0, "")
    /\ err' = FALSE
    /\ calls' = calls + 1
    /\ UNCHANGED <<dev, power_limit, closed>>

\* shutdown(): self.rf_enabled = False
ShutdownRf == GenStart("shutdown", shutdown_cmds[1], "shutdown_bias")

\* shutdown(): self.bias_enabled = False
ShutdownBias ==
    /\ pc = "shutdown_bias"
    /\ GenStep(shutdown_cmds[2], "idle")

\* turn_on(): self.bias_enabled = True
TurnOnBias == GenStart("turn_on", turn_on_cmds[1], "turn_on_sleep")

\* turn_on(): time.sleep(0.500)
TurnOnSleep ==
    /\ pc = "turn_on_sleep"
    /\ pc' = "turn_on_rf"
    /\ call' = [call EXCEPT !.slept = TRUE]
    /\ UNCHANGED <<dev, power_limit, written, err, calls, closed, bias, rf>>

\* turn_on(): self.rf_enabled = True
TurnOnRf ==
    /\ pc = "turn_on_rf"
    /\ GenStep(turn_on_cmds[2], "idle")

PowerLimitInputs == {0, 1, 100, 250, 251}
BoolInputs == {-1, 0, 1, 2}
PowerInputs(limit) ==
    ((0 - Margin)..Margin) \cup ((limit - Margin)..(limit + Margin))
        \cup ((250 - Margin)..(250 + Margin))

Construct ==
    \/ Construct705
    \/ \E limit \in PowerLimitInputs : ConstructKusg(limit)

BoolCall ==
    \/ \E v \in BoolInputs : SetExternalEnabled(v)
    \/ \E v \in BoolInputs : SetBiasEnabled(v)
    \/ \E v \in BoolInputs : SetRfEnabled(v)
    \/ \E v \in BoolInputs : SetPulseModeEnabled(v)
    \/ \E v \in BoolInputs : SetFreqStepsFineEnabled(v)

PowerCall ==
    \/ \E v \in PowerInputs(power_limit) : SetPowerSetpoint(v)
    \/ \E v \in PowerInputs(power_limit) : Tune(v)
    \/ ClearVSWRError
    \/ StoreSettings

SequenceCall ==
    \/ ShutdownRf
    \/ ShutdownBias
    \/ TurnOnBias
    \/ TurnOnSleep
    \/ TurnOnRf

\* every call, in any order, on either instrument
Next == Construct \/ ScannerCall \/ BoolCall \/ PowerCall \/ SequenceCall

Spec == Init /\ [][Next]_vars

\* the generator driven through turn_on() and shutdown() only, with calls
\* that touch neither bias nor RF in between
NextSafe ==
    \/ \E limit \in PowerLimitInputs : ConstructKusg(limit)
    \/ PowerCall
    \/ SequenceCall

SpecSafe == Init /\ [][NextSafe]_vars

\* one assignment to one numeric control of a freshly constructed generator
SetterInputs ==
    ((0 - Wide)..(1000 + Wide)) \cup ((2400 - Wide)..(2500 + Wide))

FineInputs ==
    ((2400000 - Wide)..(2400000 + FineWindow))
        \cup ((2450000 - FineWindow)..(2450000 + FineWindow))
        \cup ((2500000 - FineWindow)..(2500000 + Wide))

PhaseInputs == (0 - 10 * Wide)..(3600 + 10 * Wide)

NextSetters ==
    \/ ConstructKusg(250)
    \/ \E v \in SetterInputs \cup FineInputs : calls = 0 /\ SetFrequencyCoarse(v)
    \/ \E v \in SetterInputs \cup FineInputs : calls = 0 /\ SetFrequencyFine(v)
    \/ \E v \in SetterInputs : calls = 0 /\ SetPulseWidth(v)
    \/ \E v \in SetterInputs : calls = 0 /\ SetOffTime(v)
    \/ \E t \in PhaseInputs : calls = 0 /\ SetPhaseShift(t)
    \/ \E v \in SetterInputs : calls = 0 /\ SetReflectionLimit(v)

SpecSetters == Init /\ [][NextSetters]_vars

(***************************************************************************)
(* Properties.                                                             *)
(***************************************************************************)
\* the decimal numerals of the channels 1 .. 20, written out
Numeral ==
    <<<<"1">>, <<"2">>, <<"3">>, <<"4">>, <<"5">>, <<"6">>, <<"7">>, <<"8">>, <<"9">>,
      <<"1", "0">>, <<"1", "1">>, <<"1", "2">>, <<"1", "3">>, <<"1", "4">>, <<"1", "5">>, <<"1", "6">>, <<"1", "7">>, <<"1", "8">>, <<"1", "9">>, <<"2", "0">>>>

OpenCommand(k) == <<"N">> \o Numeral[k] \o <<"X">>
CloseCommand(k) == <<"C">> \o Numeral[k] \o <<"X">>

\* the value a command carries after its first character
Carried(cmd) == ParseDec(Tail(cmd))

Clamp(v, lo, hi) == IF v < lo THEN lo ELSE IF v > hi THEN hi ELSE v

Abs(x) == IF x < 0 THEN 0 - x ELSE x

\* C1: exclusive_close(c), c in 1..20, writes exactly 20 commands: N<k>X
\* once for each of the 19 channels k # c and never for c, then C<c>X as
\* the last command; no close command comes before the 19 open commands.
C1_ExclusiveCloseWrites ==
    (call.op = "exclusive_close" /\ call.arg \in 1..20) =>
        LET seg == Segment
            c == call.arg
        IN  /\ Len(seg) = 20
            /\ \A k \in (1..20) \ {c} :
                  Cardinality({i \in 1..Len(seg) : seg[i] = OpenCommand(k)}) = 1
            /\ \A i \in 1..Len(seg) : seg[i] # OpenCommand(c)
            /\ seg[Len(seg)] = CloseCommand(c)
            /\ \A i \in 1..(Len(seg) - 1) : Head(seg[i]) = "N"

\* exclusive_close(7) has run after another call
C1_Witness ==
    /\ call.op = "exclusive_close"
    /\ call.arg = 7
    /\ calls = 2
    /\ Len(Segment) = 20
    /\ Segment[7] = OpenCommand(8)

\* C2: turn_on() writes X, then sleeps, then writes O, and nothing else;
\* shutdown() writes o and then x, and nothing else.
C2_TurnOnShutdownOrder ==
    /\ call.op = "turn_on" =>
          /\ pc \in {"turn_on_sleep", "turn_on_rf", "idle"}
          /\ pc = "turn_on_sleep" => Segment = << <<"X">> >> /\ ~call.slept
          /\ pc = "turn_on_rf" => Segment = << <<"X">> >> /\ call.slept
          /\ pc = "idle" => Segment = << <<"X">>, <<"O">> >> /\ call.slept
    /\ call.op = "shutdown" =>
          /\ pc \in {"shutdown_bias", "idle"}
          /\ pc = "shutdown_bias" => Segment = << <<"o">> >>
          /\ pc = "idle" => Segment = << <<"o">>, <<"x">> >>

\* turn_on() and then shutdown() have both completed
C2_Witness ==
    /\ call.op = "shutdown"
    /\ pc = "idle"
    /\ written = << <<"X">>, <<"O">>, <<"o">>, <<"x">> >>

\* C3: with power limit L, every power carried by an A### or b### command
\* is in [0, L]; power_setpoint = v and tune(v) send 0 for v < 0, L for
\* v > L and v itself otherwise, as three digits.
C3_PowerWithinLimit ==
    dev = "kusg" =>
    /\ \A i \in 1..Len(written) :
          Head(written[i]) \in {"A", "b"} =>
              /\ Len(written[i]) = 4
              /\ Carried(written[i]) \in 0..power_limit
    /\ call.op \in {"power_setpoint", "tune"} =>
          /\ Len(Segment) = 1
          /\ Head(Segment[1]) = (IF call.op = "tune" THEN "b" ELSE "A")
          /\ Carried(Segment[1]) =
                (IF call.arg < 0 THEN 0
                 ELSE IF call.arg > power_limit THEN power_limit
                 ELSE call.arg)

\* tune(v) with v above the limit 100, after a power_setpoint assignment
C3_Witness ==
    /\ power_limit = 100
    /\ call.op = "tune"
    /\ call.arg > power_limit
    /\ calls = 2
    /\ Head(written[1]) = "A"
    /\ written[2] = <<"b", "1", "0", "0">>

ReflectionCode(v) ==
    CASE v = 0 -> 0 [] v = 100 -> 1 [] v = 150 -> 2
      [] v = 180 -> 3 [] v = 200 -> 4 [] v = 230 -> 5

ReflectionSet == {0, 100, 150, 180, 200, 230}

\* C4 as stated: reflection_limit = v writes B<code> for v in the set and
\* fails, writing nothing, for every other v.
C4_Original ==
    call.op = "reflection_limit" =>
        IF call.arg \in ReflectionSet
        THEN ~err /\ Segment = << <<"B">> \o FmtD(ReflectionCode(call.arg), 0) >>
        ELSE err /\ Segment = <<>>

\* C4 amended: reflection_limit = v writes B<code> with 0->0, 100->1,
\* 150->2, 180->3, 200->4, 230->5 for v in the set; any other integer v is
\* not rejected but truncated to a member of the set, whose code is
\* written: B0 for v below 0, B5 for v above 230.
C4_ReflectionLimitTruncates ==
    call.op = "reflection_limit" =>
        /\ ~err
        /\ Len(Segment) = 1
        /\ Len(Segment[1]) = 2
        /\ Head(Segment[1]) = "B"
        /\ Carried(Segment[1]) \in 0..5
        /\ call.arg \in ReflectionSet =>
              Carried(Segment[1]) = ReflectionCode(call.arg)
        /\ call.arg < 0 => Carried(Segment[1]) = 0
        /\ call.arg > 230 => Carried(Segment[1]) = 5

\* reflection_limit = 120, outside the set, has written a command
C4_Witness ==
    /\ call.op = "reflection_limit"
    /\ call.arg = 120
    /\ Len(Segment) = 1

\* C5: pulse_width = v (C####) and off_time = v (c####) send a multiple w
\* of 5 in [10, 1000] with |w - clamp(v, 10, 1000)| <= 2.
C5_PulseTimesRounded ==
    call.op \in {"pulse_width", "off_time"} =>
        LET w == Carried(Segment[1])
        IN  /\ Len(Segment) = 1
            /\ Len(Segment[1]) = 5
            /\ Head(Segment[1]) = (IF call.op = "pulse_width" THEN "C" ELSE "c")
            /\ w % 5 = 0
            /\ 10 <= w /\ w <= 1000
            /\ Abs(w - Clamp(call.arg, 10, 1000)) <= 2

\* pulse_width = 123 has sent C0125
C5_Witness ==
    /\ call.op = "pulse_width"
    /\ call.arg = 123
    /\ Segment = << <<"C", "0", "1", "2", "5">> >>

\* C6: phase_shift = v sends a code b in 0..255 for every v; for v in
\* [0, 358.6] b is the integer nearest to v/360*256, and the read-back
\* b/256*360 is within one step, 360/256 degrees, of v.  (v in tenths.)
C6_PhaseRoundTrip ==
    call.op = "phase_shift" =>
        LET b == Carried(Segment[1])
            t == call.arg
            back == phase_shift_get_process(b)
        IN  /\ Len(Segment) = 1
            /\ Len(Segment[1]) = 4
            /\ Head(Segment[1]) = "H"
            /\ b \in 0..255
            /\ t < 0 => b = 0
            /\ t > 3586 => b = 255
            /\ t \in 0..3586 =>
                  /\ 2 * Abs(3600 * b - 256 * t) <= 3600
                  /\ 256 * Abs(back.num - t * back.den) <= 3600 * back.den

\* phase_shift = 90 degrees has sent H064
C6_Witness ==
    /\ call.op = "phase_shift"
    /\ call.arg = 900
    /\ Segment = << <<"H", "0", "6", "4">> >>

StrictOps ==
    {"number_of_poles", "display_mode", "date_format", "external_enabled",
     "bias_enabled", "rf_enabled", "pulse_mode_enabled", "freq_steps_fine_enabled"}

\* the argument of the call c is in the declared value set of its property
Declared(c) ==
    CASE c.op = "number_of_poles" -> c.arg \in {0, 1, 2, 4}
      [] c.op = "display_mode" ->
            c.key \in {"channel", "interval", "time", "date", "message"}
      [] c.op = "date_format" -> c.key \in {"American", "International"}
      [] OTHER -> c.arg \in {0, 1}

\* the command a valid assignment writes
StrictCommand(c) ==
    CASE c.op = "number_of_poles" -> <<"A", Digit(c.arg), "X">>
      [] c.op = "display_mode" ->
            <<"D", (CASE c.key = "channel" -> "0" [] c.key = "interval" -> "1"
                      [] c.key = "time" -> "2" [] c.key = "date" -> "3"
                      [] c.key = "message" -> "4"), "X">>
      [] c.op = "date_format" ->
            <<"E", (IF c.key = "American" THEN "0" ELSE "1"), "X">>
      [] c.op = "external_enabled" -> <<IF c.arg = 1 THEN "R" ELSE "r">>
      [] c.op = "bias_enabled" -> <<IF c.arg = 1 THEN "X" ELSE "x">>
      [] c.op = "rf_enabled" -> <<IF c.arg = 1 THEN "O" ELSE "o">>
      [] c.op = "pulse_mode_enabled" -> <<IF c.arg = 1 THEN "P" ELSE "p">>
      [] c.op = "freq_steps_fine_enabled" ->
            <<"f", "m", (IF c.arg = 1 THEN "1" ELSE "0")>>

\* C7: an assignment to a property guarded by strict_discrete_set with a
\* value outside the declared set raises and leaves the written commands
\* as they were; an assignment with a declared value, also one that
\* follows a failed assignment, appends its command and does not raise.
C7_StrictSetRejects ==
    [][(calls' = calls + 1 /\ call'.op \in StrictOps) =>
          IF Declared(call')
          THEN written' = Append(written, StrictCommand(call')) /\ ~err'
          ELSE written' = written /\ err']_vars

\* rf_enabled = True has written O after an assignment that wrote nothing
C7_Witness ==
    /\ dev = "kusg"
    /\ calls = 2
    /\ call.op = "rf_enabled"
    /\ ~err
    /\ written = << <<"O">> >>

\* C8: frequency_coarse = v sends f and clamp(v, 2400, 2500) as four
\* digits; frequency_fine = v sends f and a multiple w of 10 in
\* [2400000, 2500000] with |w - clamp(v, 2400000, 2500000)| <= 5.
C8_FrequencyWithinRange ==
    /\ call.op = "frequency_coarse" =>
          /\ Len(Segment) = 1
          /\ Len(Segment[1]) = 5
          /\ Head(Segment[1]) = "f"
          /\ Carried(Segment[1]) = Clamp(call.arg, 2400, 2500)
    /\ call.op = "frequency_fine" =>
          LET w == Carried(Segment[1])
          IN  /\ Len(Segment) = 1
              /\ Len(Segment[1]) = 8
              /\ Head(Segment[1]) = "f"
              /\ w % 10 = 0
              /\ 2400000 <= w /\ w <= 2500000
              /\ Abs(w - Clamp(call.arg, 2400000, 2500000)) <= 5

\* frequency_fine = 2449996 has sent f2450000
C8_Witness ==
    /\ call.op = "frequency_fine"
    /\ call.arg = 2449996
    /\ Segment = << <<"f", "2", "4", "5", "0", "0", "0", "0">> >>

\* C9: with bias and RF following X/x and O/o and both off at the start,
\* through any turn_on() and shutdown() calls and between their writes RF
\* is never on while bias is off; a completed turn_on() leaves both on, a
\* completed shutdown() both off.
C9_RfOnlyWithBias ==
    /\ rf => bias
    /\ (call.op = "turn_on" /\ pc = "idle") => (bias /\ rf)
    /\ (call.op = "shutdown" /\ pc = "idle") => (~bias /\ ~rf)

\* between the two writes of a shutdown() that follows a turn_on()
C9_Witness ==
    /\ call.op = "shutdown"
    /\ pc = "shutdown_bias"
    /\ written = << <<"X">>, <<"O">>, <<"o">> >>
    /\ bias
    /\ ~rf

\* C10: the constructor's first command is RX, so all channels start
\* open; after any reset / open_channel / close_channel / exclusive_close
\* calls on channels 1..20, a completed exclusive_close(c) leaves exactly
\* {c} closed.
C10_ExclusiveCloseLeavesOne ==
    dev = "k705" =>
        /\ Len(written) >= 1
        /\ written[1] = <<"R", "X">>
        /\ calls = 0 => closed = {}
        /\ call.op = "exclusive_close" => closed = {call.arg}

\* exclusive_close(9) has run with channel 20 closed before it
C10_Witness ==
    /\ dev = "k705"
    /\ call.op = "exclusive_close"
    /\ call.arg = 9
    /\ written[2] = CloseCommand(20)
    /\ closed = {9}

====
